---------------------------- MODULE Spec2Model ----------------------------
(***************************************************************************)
(* Model of DependencyVisualizer (src/dep_viz.py): the breadth-first       *)
(* dependency graph builder, the depth-first load order and the reverse    *)
(* dependency index.                                                       *)
(*                                                                         *)
(* Strings are sequences of one-character strings, so that lower(), the    *)
(* substring test and the "name@version" formatting are computed as the    *)
(* code computes them.  A Python dict is a sequence of <<key, value>>      *)
(* pairs in insertion order.  The crates.io registry is the environment:   *)
(* a manifest is chosen when a crate is first downloaded and stays fixed   *)
(* after that; a download may fail; a version lookup may fail.             *)
(***************************************************************************)
EXTENDS Integers, Sequences, FiniteSets, TLC

(***************************************************************************)
(* Bounds of the model.                                                    *)
(***************************************************************************)
MaxDeps == 2        \* largest number of dependency names in one manifest
MaxNonLeaf == 3     \* crates of the registry whose manifest names a dependency
MaxDepthCfg == 2    \* largest finite max_depth a configuration sets
MaxChanges == 1     \* changes of the registry's version answers during a run
MaxKeys == 3        \* largest number of entries of a graph loaded from a file

(***************************************************************************)
(* Values.                                                                 *)
(***************************************************************************)
Names == { <<"a">>, <<"a", "B">>, <<"c">> }

SentinelVersion == <<"1", ".", "0", ".", "0">>

MaxVersions == { <<"2">> }

Versions == MaxVersions \cup {SentinelVersion}

\* the names a configuration asks for; <<"c">> behaves as <<"a">> does
RootNames == { <<"a">>, <<"a", "B">> }

Filters == { <<>>, <<"A", "b">> }

\* config.get('max_depth', float('inf')): <<k>> when the key is set to k,
\* <<>> when it is absent
Unbounded == <<>>

\* a failed GET /crates/{name}; no version string is empty
Failure == <<>>

Pkgs == Names \X Versions

(***************************************************************************)
(* String helpers.                                                         *)
(***************************************************************************)
LowerChar(c) ==
    CASE c = "A" -> "a"
      [] c = "B" -> "b"
      [] c = "C" -> "c"
      [] OTHER -> c

Lower(s) == [i \in 1..Len(s) |-> LowerChar(s[i])]

\* Python's  sub in s  for strings
Contains(sub, s) ==
    \E i \in 0..(Len(s) - Len(sub)) : SubSeq(s, i + 1, i + Len(sub)) = sub

PkgId(name, version) == name \o <<"@">> \o version

(***************************************************************************)
(* Insertion-ordered dict.                                                 *)
(***************************************************************************)
Keys(d) == { d[i][1] : i \in 1..Len(d) }

KeyIndex(d, k) == CHOOSE i \in 1..Len(d) : d[i][1] = k

DictGet(d, k) == d[KeyIndex(d, k)][2]

\* d.get(k, [])
DictGetOrEmpty(d, k) == IF k \in Keys(d) THEN DictGet(d, k) ELSE <<>>

\* mutant: the dict is replaced by one holding the new entry alone
DictSetFresh(d, k, v) == << << k, v >> >>

\* d[k] = v
DictSet(d, k, v) ==
    IF k \in Keys(d)
    THEN [d EXCEPT ![KeyIndex(d, k)] = <<k, v>>]
    ELSE Append(d, <<k, v>>)

(***************************************************************************)
(* Sequence helpers.                                                       *)
(***************************************************************************)
Range(s) == { s[i] : i \in 1..Len(s) }

\* every list holding each element of the set S exactly once: list(set)
Orderings(S) ==
    { s \in [1..Cardinality(S) -> S] : Range(s) = S }

Reverse(s) == [i \in 1..Len(s) |-> s[Len(s) + 1 - i]]

ManifestSets == { S \in SUBSET Names : Cardinality(S) <= MaxDeps }

(***************************************************************************)
(* State.                                                                  *)
(***************************************************************************)
VARIABLES
    config,         \* self.config: package_name, version, max_depth, filter_substring
    direct_deps,    \* self.direct_deps
    graph,          \* self.graph: pkg_id -> [dep names]
    reverse_graph,  \* self.reverse_graph: pkg_id -> [pkg_id]
    queue,          \* _fetch_all_dependencies: deque of <<name, version, depth>>
    visited,        \* _fetch_all_dependencies: set of pkg_id
    stack,          \* show_dependency_order: the local stack after dfs(start_node)
    printed,        \* show_dependency_order: the load order as printed, first line first
    pc,             \* position of the program
    manifest,       \* registry: <<name, version>> -> set of dependency names,
                    \* for the crates downloaded so far
    latest,         \* registry: name -> max_version, or Failure
    changes,        \* history: how often the registry changed an answer
    downloads,      \* history: pkg_ids handed to _download_crate, in order
    failed,         \* history: pkg_ids whose fetch raised in the build
    enqueued,       \* history: pkg_ids appended to the queue, in order
    dequeued,       \* history: <<pkg_id, depth>> popped from the queue, in order
    edges,          \* history: <<pkg_id, dep_id>> resolved by the build
    frames,         \* dfs: the calls that have not returned, outermost first,
                    \* each <<node, index of the dependency its loop is at>>
    order_visited,  \* show_dependency_order: the local visited while dfs runs
    entered         \* history: the nodes whose dfs call passed line 211

\* the state of a traversal that is followed call by call
walk == << frames, order_visited, entered >>

vars == << config, direct_deps, graph, reverse_graph, queue, visited,
           stack, printed, pc,
           manifest, latest, changes, downloads, failed, enqueued, dequeued,
           edges, frames, order_visited, entered >>

(***************************************************************************)
(* The registry.                                                           *)
(***************************************************************************)
\* the answers a lookup may get
Answers == MaxVersions \cup {Failure}

\* mutant: the failure is handed to the caller in place of a version
GetLatestVersionNoFallback(response) == response

\* _get_latest_version, given the registry's answer to GET /crates/{name}
GetLatestVersion(response) ==
    IF response = Failure THEN SentinelVersion ELSE response

\* the PackageId a dependency name resolves to now
Resolve(name) == PkgId(name, GetLatestVersion(latest[name]))

\* The changes of the registry that a stage-4 operation may meet: plan[n] is
\* the new answer that the operation's n-th lookup is the first to see.
Plans(lookups) ==
    UNION { [P -> Answers] :
              P \in { Q \in SUBSET (1..lookups) :
                        Cardinality(Q) <= MaxChanges - changes } }

\* the registry as the n-th lookup, of name, finds it
Seen(registry, plan, n, name) ==
    IF n \in DOMAIN plan
    THEN [registry EXCEPT ![name] = plan[n]]
    ELSE registry

\* the registry's answers when the run starts
InitialLatests ==
    { [n \in Names |-> IF n = <<"a", "B">> THEN Failure ELSE <<"2">>] }

\* The registry as the lookups of the names in D find it: between two
\* lookups it may have published a version, or a lookup may have started or
\* stopped failing, MaxChanges times in a run.
Observed(D) ==
    { new \in [Names -> Answers] :
        LET C == { n \in Names : new[n] # latest[n] }
        IN  /\ C \subseteq D
            /\ Cardinality(C) <= MaxChanges - changes }

Changed(new) == Cardinality({ n \in Names : new[n] # latest[n] })

\* the dependency sets a download of <<name, version>> may find
ManifestChoices(name, version) ==
    IF << name, version >> \in DOMAIN manifest
    THEN {manifest[<< name, version >>]}
    ELSE IF Cardinality({ p \in DOMAIN manifest : manifest[p] # {} }) < MaxNonLeaf
         THEN ManifestSets
         ELSE {{}}

\* the registry after a download of <<name, version>> found the set S
Publish(name, version, S) ==
    [p \in DOMAIN manifest \cup { << name, version >> } |->
        IF p = << name, version >> THEN S ELSE manifest[p]]

(***************************************************************************)
(* Construction: __init__ up to the call of _collect_direct_deps.          *)
(***************************************************************************)
Configs ==
    [ package_name : RootNames,
      version : Versions,
      max_depth : { <<k>> : k \in 0..MaxDepthCfg } \cup {Unbounded},
      filter_substring : Filters ]

Init ==
    /\ config \in Configs
    /\ direct_deps = <<>>
    /\ graph = <<>>
    /\ reverse_graph = <<>>
    /\ queue = <<>>
    /\ visited = {}
    /\ stack = <<>>
    /\ printed = <<>>
    /\ pc = "collect"
    /\ manifest = << >>
    /\ latest \in InitialLatests
    /\ changes = 0
    /\ downloads = <<>>
    /\ failed = {}
    /\ enqueued = <<>>
    /\ dequeued = <<>>
    /\ edges = {}
    /\ frames = <<>>
    /\ order_visited = {}
    /\ entered = <<>>

StartPkg == PkgId(config.package_name, config.version)

\* __init__ has returned: the positions at which the owner of the object may
\* call show_dependency_order and show_reverse_dependencies, in any order
Constructed == { "done", "order_returned", "reverse_returned" }

(***************************************************************************)
(* Stage 2: _collect_direct_deps.                                          *)
(***************************************************************************)
CollectDirectDeps ==
    /\ pc = "collect"
    /\ downloads' = Append(downloads, StartPkg)
    /\ \/ \* download, extraction or parse raised
          /\ direct_deps' = <<>>
          /\ UNCHANGED manifest
       \/ \E S \in ManifestChoices(config.package_name, config.version) :
             /\ manifest' = Publish(config.package_name, config.version, S)
             /\ direct_deps' \in Orderings(S)
    /\ pc' = "fetch"
    /\ UNCHANGED << config, graph, reverse_graph, queue, visited, stack,
                    printed, latest, changes, failed, enqueued, dequeued,
                    edges,
                    walk >>

(***************************************************************************)
(* Stage 3: _fetch_all_dependencies.                                       *)
(***************************************************************************)
\* mutant: line 116 is missing, the root is not marked as visited
FetchStartUnmarked ==
    /\ pc = "fetch"
    /\ queue' = <<  << config.package_name, config.version, 0 >>  >>
    /\ visited' = {}
    /\ enqueued' = Append(enqueued, StartPkg)
    /\ pc' = "bfs"
    /\ UNCHANGED << config, direct_deps, graph, reverse_graph, stack, printed,
                    manifest, latest, changes, downloads, failed, dequeued,
                    edges,
                    walk >>

\* lines 111-119
FetchStart ==
    /\ pc = "fetch"
    /\ queue' = <<  << config.package_name, config.version, 0 >>  >>
    /\ visited' = {StartPkg}
    /\ enqueued' = Append(enqueued, StartPkg)
    /\ pc' = "bfs"
    /\ UNCHANGED << config, direct_deps, graph, reverse_graph, stack, printed,
                    manifest, latest, changes, downloads, failed, dequeued,
                    edges,
                    walk >>

\* The lists _parse_dependencies may return for the manifest of pkg_id with
\* the names S: list(set) in the order of the process's string hashes, which
\* is the order stage 2 saw if it parsed the same manifest.
ParseOrders(pkg_id, S) ==
    IF pkg_id = StartPkg /\ Range(direct_deps) = S
    THEN {direct_deps}
    ELSE Orderings(S)

\* mutant: the cut-off compares with > instead of >=
DepthReachedStrict(depth, max_depth) ==
    /\ max_depth # Unbounded
    /\ depth > max_depth[1]

\* depth >= max_depth, max_depth defaulting to float('inf')
DepthReached(depth, max_depth) ==
    /\ max_depth # Unbounded
    /\ depth >= max_depth[1]

\* mutant: the test that the filter is non-empty is missing
FilteredEmptyMatches(name, filter_substring) ==
    Contains(Lower(filter_substring), Lower(name))

\* mutant: the name is compared as it is written, not lowered
FilteredCaseSensitive(name, filter_substring) ==
    LET filter_sub == Lower(filter_substring)
    IN  /\ filter_sub # <<>>
        /\ Contains(filter_sub, name)

\* filter_sub and filter_sub in name.lower()
Filtered(name, filter_substring) ==
    LET filter_sub == Lower(filter_substring)
    IN  /\ filter_sub # <<>>
        /\ Contains(filter_sub, Lower(name))

\* mutant: every resolved dependency is appended, visited or not
RECURSIVE EnqueueDepsUnguarded(_, _, _, _, _, _)
EnqueueDepsUnguarded(deps, i, registry, depth, pkg_id, st) ==
    IF i > Len(deps) THEN st
    ELSE LET dep_name == deps[i]
             dep_version == GetLatestVersion(registry[dep_name])
             dep_id == PkgId(dep_name, dep_version)
         IN  EnqueueDepsUnguarded(deps, i + 1, registry, depth, pkg_id,
                 [ visited |-> st.visited \cup {dep_id},
                   queue |-> Append(st.queue,
                               << dep_name, dep_version, depth + 1 >>),
                   enqueued |-> Append(st.enqueued, dep_id),
                   edges |-> st.edges \cup { << pkg_id, dep_id >> } ])

\* mutant: a new tuple is put at the head of the queue
RECURSIVE EnqueueDepsFront(_, _, _, _, _, _)
EnqueueDepsFront(deps, i, registry, depth, pkg_id, st) ==
    IF i > Len(deps) THEN st
    ELSE LET dep_name == deps[i]
             dep_version == GetLatestVersion(registry[dep_name])
             dep_id == PkgId(dep_name, dep_version)
             st1 == IF dep_id \notin st.visited
                    THEN [ visited |-> st.visited \cup {dep_id},
                           queue |-> << << dep_name, dep_version, depth + 1 >> >>
                                       \o st.queue,
                           enqueued |-> Append(st.enqueued, dep_id),
                           edges |-> st.edges ]
                    ELSE st
         IN  EnqueueDepsFront(deps, i + 1, registry, depth, pkg_id,
                 [st1 EXCEPT !.edges = @ \cup { << pkg_id, dep_id >> }])

\* the for loop of lines 154-160 over deps[i..]
RECURSIVE EnqueueDeps(_, _, _, _, _, _)
EnqueueDeps(deps, i, registry, depth, pkg_id, st) ==
    IF i > Len(deps) THEN st
    ELSE LET dep_name == deps[i]
             dep_version == GetLatestVersion(registry[dep_name])
             dep_id == PkgId(dep_name, dep_version)
             st1 == IF dep_id \notin st.visited
                    THEN [ visited |-> st.visited \cup {dep_id},
                           queue |-> Append(st.queue,
                                       << dep_name, dep_version, depth + 1 >>),
                           enqueued |-> Append(st.enqueued, dep_id),
                           edges |-> st.edges ]
                    ELSE st
         IN  EnqueueDeps(deps, i + 1, registry, depth, pkg_id,
                 [st1 EXCEPT !.edges = @ \cup { << pkg_id, dep_id >> }])

\* mutant: a package without dependencies gets no entry in the graph
ExpandSkipsEmpty(name, version, depth, deps) ==
    LET pkg_id == PkgId(name, version)
    IN  /\ graph' = IF deps = <<>> THEN graph ELSE DictSet(graph, pkg_id, deps)
        /\ \E registry \in Observed(Range(deps)) :
              /\ latest' = registry
              /\ changes' = changes + Changed(registry)
              /\ \E st \in { EnqueueDeps(deps, 1, registry, depth, pkg_id,
                                  [ visited |-> visited, queue |-> Tail(queue),
                                    enqueued |-> enqueued, edges |-> edges ]) } :
                     /\ visited' = st.visited
                     /\ queue' = st.queue
                     /\ enqueued' = st.enqueued
                     /\ edges' = st.edges

\* lines 140-160 once the dependency list is known
Expand(name, version, depth, deps) ==
    LET pkg_id == PkgId(name, version)
    IN  /\ graph' = DictSet(graph, pkg_id, deps)
        /\ \E registry \in Observed(Range(deps)) :
              /\ latest' = registry
              /\ changes' = changes + Changed(registry)
              /\ \E st \in { EnqueueDeps(deps, 1, registry, depth, pkg_id,
                                  [ visited |-> visited, queue |-> Tail(queue),
                                    enqueued |-> enqueued, edges |-> edges ]) } :
                     /\ visited' = st.visited
                     /\ queue' = st.queue
                     /\ enqueued' = st.enqueued
                     /\ edges' = st.edges

\* mutant: the exception is not caught and ends the run
OnFetchErrorRaises(name, version, depth) ==
    /\ failed' = failed \cup {PkgId(name, version)}
    /\ pc' = "raised"
    /\ UNCHANGED << graph, queue, visited, enqueued, edges, latest, changes >>

\* mutant: the handler records the empty list and leaves the loop
OnFetchErrorBreaks(name, version, depth) ==
    /\ failed' = failed \cup {PkgId(name, version)}
    /\ graph' = DictSet(graph, PkgId(name, version), <<>>)
    /\ queue' = <<>>
    /\ UNCHANGED << pc, visited, enqueued, edges, latest, changes >>

\* lines 146-148, and the rest of the iteration: download, extraction or
\* parse raised
OnFetchError(name, version, depth) ==
    /\ failed' = failed \cup {PkgId(name, version)}
    /\ UNCHANGED pc
    /\ Expand(name, version, depth, <<>>)

\* one iteration of the while loop, lines 121-160
FetchStep ==
    /\ pc = "bfs"
    /\ queue # <<>>
    /\ LET name == Head(queue)[1]
           version == Head(queue)[2]
           depth == Head(queue)[3]
           pkg_id == PkgId(name, version)
       IN  /\ dequeued' = Append(dequeued, << pkg_id, depth >>)
           /\ IF pkg_id \in Keys(graph)
              THEN /\ queue' = Tail(queue)
                   /\ UNCHANGED << graph, visited, manifest, downloads, pc,
                                   failed, enqueued, edges, latest, changes >>
              ELSE IF \/ DepthReached(depth, config.max_depth)
                      \/ Filtered(name, config.filter_substring)
              THEN /\ graph' = DictSet(graph, pkg_id, <<>>)
                   /\ queue' = Tail(queue)
                   /\ UNCHANGED << visited, manifest, downloads, failed, pc,
                                   enqueued, edges, latest, changes >>
              ELSE /\ downloads' = Append(downloads, pkg_id)
                   /\ \/ /\ UNCHANGED manifest
                         /\ OnFetchError(name, version, depth)
                      \/ \E S \in ManifestChoices(name, version) :
                            /\ manifest' = Publish(name, version, S)
                            /\ UNCHANGED << failed, pc >>
                            /\ \E deps \in ParseOrders(pkg_id, S) :
                                  Expand(name, version, depth, deps)
    /\ UNCHANGED << config, direct_deps, reverse_graph, stack, printed,
                    walk >>

\* the loop ends, line 162
FetchDone ==
    /\ pc = "bfs"
    /\ queue = <<>>
    /\ pc' = "ready"
    /\ UNCHANGED << config, direct_deps, graph, reverse_graph, queue, visited,
                    stack, printed, manifest, latest, changes, downloads,
                    failed, enqueued, dequeued, edges,
                    walk >>

(***************************************************************************)
(* Stage 4: show_dependency_order.                                         *)
(***************************************************************************)
RECURSIVE Dfs(_, _, _), DfsDeps(_, _, _, _)

\* mutant: the dependency is looked up in the graph by its name alone
RECURSIVE DfsDepsByName(_, _, _, _)
DfsDepsByName(deps, i, plan, st) ==
    IF i > Len(deps) THEN st
    ELSE LET dep == deps[i]
             n == st.lookups + 1
             registry == Seen(st.registry, plan, n, dep)
             st1 == [st EXCEPT !.lookups = n, !.registry = registry]
         IN  DfsDepsByName(deps, i + 1, plan,
                 IF dep \in Keys(graph) THEN Dfs(dep, plan, st1) ELSE st1)

\* mutant: the nodes visited below one dependency are forgotten when the
\* loop goes on to the next
RECURSIVE DfsDepsForgetful(_, _, _, _)
DfsDepsForgetful(deps, i, plan, st) ==
    IF i > Len(deps) THEN st
    ELSE LET dep == deps[i]
             n == st.lookups + 1
             registry == Seen(st.registry, plan, n, dep)
             dep_id == PkgId(dep, GetLatestVersion(registry[dep]))
             st1 == [st EXCEPT !.lookups = n, !.registry = registry]
         IN  DfsDepsForgetful(deps, i + 1, plan,
                 IF dep_id \in Keys(graph)
                 THEN [Dfs(dep_id, plan, st1) EXCEPT !.visited = st1.visited]
                 ELSE st1)

\* dfs(node), lines 209-219, and its for loop over deps[i..]; st carries the
\* locals visited and stack, and the registry with the count of lookups made
Dfs(node, plan, st) ==
    IF node \in st.visited THEN st
    ELSE LET st1 == DfsDeps(DictGetOrEmpty(graph, node), 1, plan,
                        [st EXCEPT !.visited = @ \cup {node}])
         IN  [st1 EXCEPT !.stack = Append(@, node)]

DfsDeps(deps, i, plan, st) ==
    IF i > Len(deps) THEN st
    ELSE LET dep == deps[i]
             n == st.lookups + 1
             registry == Seen(st.registry, plan, n, dep)
             dep_id == PkgId(dep, GetLatestVersion(registry[dep]))
             st1 == [st EXCEPT !.lookups = n, !.registry = registry]
         IN  DfsDeps(deps, i + 1, plan,
                 IF dep_id \in Keys(graph) THEN Dfs(dep_id, plan, st1) ELSE st1)

\* the number of dependency names recorded in a graph
RECURSIVE Edges(_)
Edges(g) == IF g = <<>> THEN 0 ELSE Len(Head(g)[2]) + Edges(Tail(g))

\* mutant: the order is computed destructively, the entries of the nodes it
\* placed are removed from the graph
ShowDependencyOrderConsumes ==
    /\ pc \in {"ready"} \cup Constructed
    /\ \E plan \in Plans(Edges(graph)) :
          \E st \in { Dfs(StartPkg, plan,
                            [ visited |-> {}, stack |-> <<>>,
                              registry |-> latest, lookups |-> 0 ]) } :
              /\ DOMAIN plan \subseteq 1..st.lookups
              /\ Changed(st.registry) = Cardinality(DOMAIN plan)
              /\ stack' = st.stack
              /\ printed' = Reverse(st.stack)
              /\ latest' = st.registry
              /\ changes' = changes + Cardinality(DOMAIN plan)
              /\ graph' = SelectSeq(graph, LAMBDA e : e[1] \notin Range(st.stack))
    /\ pc' = IF pc = "ready" THEN "ordered" ELSE "order_returned"
    /\ UNCHANGED << config, direct_deps, reverse_graph, queue, visited,
                    manifest, downloads, failed, enqueued, dequeued, edges,
                    walk >>

\* called by run_all_stages when the build has returned, and by the owner of
\* the object afterwards
ShowDependencyOrder ==
    /\ pc \in {"ready"} \cup Constructed
    /\ \E plan \in Plans(Edges(graph)) :
          \E st \in { Dfs(StartPkg, plan,
                            [ visited |-> {}, stack |-> <<>>,
                              registry |-> latest, lookups |-> 0 ]) } :
              /\ DOMAIN plan \subseteq 1..st.lookups
              /\ Changed(st.registry) = Cardinality(DOMAIN plan)
              /\ stack' = st.stack
              /\ printed' = Reverse(st.stack)
              /\ latest' = st.registry
              /\ changes' = changes + Cardinality(DOMAIN plan)
    /\ pc' = IF pc = "ready" THEN "ordered" ELSE "order_returned"
    /\ UNCHANGED << config, direct_deps, graph, reverse_graph, queue, visited,
                    manifest, downloads, failed, enqueued, dequeued, edges,
                    walk >>

(***************************************************************************)
(* show_dependency_order followed call by call: one step for the start,    *)
(* one for each turn of a dfs loop and each return of a dfs call.          *)
(***************************************************************************)
\* lines 206-212: the locals, and dfs(start_node) up to its loop
WalkStart ==
    /\ pc = "ready"
    /\ stack' = <<>>
    /\ order_visited' = {StartPkg}
    /\ entered' = <<StartPkg>>
    /\ frames' = <<  << StartPkg, 1 >>  >>
    /\ pc' = "dfs"
    /\ UNCHANGED << config, direct_deps, graph, reverse_graph, queue, visited,
                    printed, manifest, latest, changes, downloads, failed,
                    enqueued, dequeued, edges >>

\* mutant: a node is taken out of visited when its call returns
WalkStepUnmarks ==
    /\ pc = "dfs"
    /\ frames # <<>>
    /\ LET node == frames[Len(frames)][1]
           i == frames[Len(frames)][2]
           deps == DictGetOrEmpty(graph, node)
       IN  IF i > Len(deps)
           THEN /\ stack' = Append(stack, node)
                /\ frames' = SubSeq(frames, 1, Len(frames) - 1)
                /\ order_visited' = order_visited \ {node}
                /\ UNCHANGED << entered, latest, changes >>
           ELSE \E registry \in Observed({deps[i]}) :
                  LET dep_id == PkgId(deps[i],
                                      GetLatestVersion(registry[deps[i]]))
                      rest == [frames EXCEPT ![Len(frames)] = << node, i + 1 >>]
                  IN  /\ latest' = registry
                      /\ changes' = changes + Changed(registry)
                      /\ stack' = stack
                      /\ IF dep_id \in Keys(graph) /\ dep_id \notin order_visited
                         THEN /\ order_visited' = order_visited \cup {dep_id}
                              /\ entered' = Append(entered, dep_id)
                              /\ frames' = Append(rest, << dep_id, 1 >>)
                         ELSE /\ frames' = rest
                              /\ UNCHANGED << order_visited, entered >>
    /\ UNCHANGED << config, direct_deps, graph, reverse_graph, queue, visited,
                    printed, pc, manifest, downloads, failed, enqueued,
                    dequeued, edges >>

\* the innermost dfs call: one turn of its loop, lines 214-217 and 210-212
\* of the call it makes, or its return, line 219
WalkStep ==
    /\ pc = "dfs"
    /\ frames # <<>>
    /\ LET node == frames[Len(frames)][1]
           i == frames[Len(frames)][2]
           deps == DictGetOrEmpty(graph, node)
       IN  IF i > Len(deps)
           THEN /\ stack' = Append(stack, node)
                /\ frames' = SubSeq(frames, 1, Len(frames) - 1)
                /\ UNCHANGED << order_visited, entered, latest, changes >>
           ELSE \E registry \in Observed({deps[i]}) :
                  LET dep_id == PkgId(deps[i],
                                      GetLatestVersion(registry[deps[i]]))
                      rest == [frames EXCEPT ![Len(frames)] = << node, i + 1 >>]
                  IN  /\ latest' = registry
                      /\ changes' = changes + Changed(registry)
                      /\ stack' = stack
                      /\ IF dep_id \in Keys(graph) /\ dep_id \notin order_visited
                         THEN /\ order_visited' = order_visited \cup {dep_id}
                              /\ entered' = Append(entered, dep_id)
                              /\ frames' = Append(rest, << dep_id, 1 >>)
                         ELSE /\ frames' = rest
                              /\ UNCHANGED << order_visited, entered >>
    /\ UNCHANGED << config, direct_deps, graph, reverse_graph, queue, visited,
                    printed, pc, manifest, downloads, failed, enqueued,
                    dequeued, edges >>

\* dfs(start_node) has returned: lines 224-226
WalkReturn ==
    /\ pc = "dfs"
    /\ frames = <<>>
    /\ printed' = Reverse(stack)
    /\ pc' = "ordered"
    /\ UNCHANGED << config, direct_deps, graph, reverse_graph, queue, visited,
                    stack, manifest, latest, changes, downloads, failed,
                    enqueued, dequeued, edges, walk >>

(***************************************************************************)
(* Stage 4: show_reverse_dependencies.                                     *)
(***************************************************************************)
\* mutant: the dependent replaces the list instead of being appended to it
RECURSIVE ReverseDepsOverwrite(_, _, _, _, _)
ReverseDepsOverwrite(pkg, deps, i, plan, st) ==
    IF i > Len(deps) THEN st
    ELSE LET dep == deps[i]
             n == st.lookups + 1
             registry == Seen(st.registry, plan, n, dep)
             dep_id == PkgId(dep, GetLatestVersion(registry[dep]))
         IN  ReverseDepsOverwrite(pkg, deps, i + 1, plan,
                 [ reverse_graph |->
                       DictSet(st.reverse_graph, dep_id, << pkg >>),
                   registry |-> registry,
                   lookups |-> n ])

\* mutant: the dependent is put at the front of the list
RECURSIVE ReverseDepsPrepend(_, _, _, _, _)
ReverseDepsPrepend(pkg, deps, i, plan, st) ==
    IF i > Len(deps) THEN st
    ELSE LET dep == deps[i]
             n == st.lookups + 1
             registry == Seen(st.registry, plan, n, dep)
             dep_id == PkgId(dep, GetLatestVersion(registry[dep]))
             old == DictGetOrEmpty(st.reverse_graph, dep_id)
         IN  ReverseDepsPrepend(pkg, deps, i + 1, plan,
                 [ reverse_graph |->
                       DictSet(st.reverse_graph, dep_id, << pkg >> \o old),
                   registry |-> registry,
                   lookups |-> n ])

\* lines 268-273: the loop over graph.items() from the k-th item on, and the
\* loop over the item's deps[i..]
RECURSIVE ReverseItems(_, _, _), ReverseDeps(_, _, _, _, _)
ReverseItems(k, plan, st) ==
    IF k > Len(graph) THEN st
    ELSE ReverseItems(k + 1, plan,
             ReverseDeps(graph[k][1], graph[k][2], 1, plan, st))

ReverseDeps(pkg, deps, i, plan, st) ==
    IF i > Len(deps) THEN st
    ELSE LET dep == deps[i]
             n == st.lookups + 1
             registry == Seen(st.registry, plan, n, dep)
             dep_id == PkgId(dep, GetLatestVersion(registry[dep]))
             old == DictGetOrEmpty(st.reverse_graph, dep_id)
         IN  ReverseDeps(pkg, deps, i + 1, plan,
                 [ reverse_graph |->
                       DictSet(st.reverse_graph, dep_id, Append(old, pkg)),
                   registry |-> registry,
                   lookups |-> n ])

\* mutant: line 267 is missing, the index of the call before is kept and
\* appended to
ShowReverseDependenciesKeeps ==
    /\ pc \in {"ordered"} \cup Constructed
    /\ \E plan \in Plans(Edges(graph)) :
          \E st \in { ReverseItems(1, plan,
                            [ reverse_graph |-> reverse_graph,
                              registry |-> latest, lookups |-> 0 ]) } :
              /\ Changed(st.registry) = Cardinality(DOMAIN plan)
              /\ reverse_graph' = st.reverse_graph
              /\ latest' = st.registry
              /\ changes' = changes + Cardinality(DOMAIN plan)
    /\ pc' = IF pc = "ordered" THEN "done" ELSE "reverse_returned"
    /\ UNCHANGED << config, direct_deps, graph, queue, visited, stack, printed,
                    manifest, downloads, failed, enqueued, dequeued, edges,
                    walk >>

\* called by run_all_stages after show_dependency_order, and by the owner of
\* the object afterwards
ShowReverseDependencies ==
    /\ pc \in {"ordered"} \cup Constructed
    /\ \E plan \in Plans(Edges(graph)) :
          \E st \in { ReverseItems(1, plan,
                            [ reverse_graph |-> <<>>, registry |-> latest,
                              lookups |-> 0 ]) } :
              /\ Changed(st.registry) = Cardinality(DOMAIN plan)
              /\ reverse_graph' = st.reverse_graph
              /\ latest' = st.registry
              /\ changes' = changes + Cardinality(DOMAIN plan)
    /\ pc' = IF pc = "ordered" THEN "done" ELSE "reverse_returned"
    /\ UNCHANGED << config, direct_deps, graph, queue, visited, stack, printed,
                    manifest, downloads, failed, enqueued, dequeued, edges,
                    walk >>

(***************************************************************************)
(* The build alone: construction up to the return of                       *)
(* _fetch_all_dependencies, for every configuration.                       *)
(***************************************************************************)
NextBuild ==
    \/ CollectDirectDeps
    \/ FetchStart
    \/ FetchStep
    \/ FetchDone

SpecBuild == Init /\ [][NextBuild]_vars

\* the interpreter keeps running the loop: a step that can be taken is taken
SpecBuildFair == SpecBuild /\ WF_vars(NextBuild)

(***************************************************************************)
(* The whole run: construction, the build, the stage-4 operations in the   *)
(* order in which run_all_stages calls them, and then the calls of the     *)
(* stage-4 operations by the owner of the object.                          *)
(***************************************************************************)
RunConfigs ==
    { c \in Configs :
        /\ c.package_name = <<"a">>
        /\ c.max_depth \in { <<1>>, Unbounded } }

InitRun ==
    /\ Init
    /\ config \in RunConfigs

Next ==
    \/ NextBuild
    \/ ShowDependencyOrder
    \/ ShowReverseDependencies

Spec == InitRun /\ [][Next]_vars

(***************************************************************************)
(* The traversal alone, on a graph that _load_test_dependencies read from  *)
(* a file: any keys, any lists.                                            *)
(***************************************************************************)
\* the lists of names a file may give to a key
DepLists == UNION { Orderings(S) : S \in ManifestSets }

\* the keys a file may hold, in one order
TestKeys == CHOOSE s \in Orderings({ PkgId(p[1], p[2]) : p \in Pkgs }) : TRUE

\* the choices of n keys, as rising positions in TestKeys
Rising(n) ==
    { ix \in [1..n -> 1..Len(TestKeys)] :
        \A i \in 1..(n - 1) : ix[i] < ix[i + 1] }

\* json.load of the test file: the dict with the keys at the positions ix
\* and the lists l; the order of the entries is not read by the traversal
TestGraph(ix, l) == [i \in 1..Len(ix) |-> << TestKeys[ix[i]], l[i] >>]

\* the traversal reads package_name and version alone
WalkConfigs ==
    { c \in RunConfigs :
        /\ c.version = <<"2">>
        /\ c.max_depth = Unbounded
        /\ c.filter_substring = <<>> }

InitWalk ==
    /\ config \in WalkConfigs
    /\ direct_deps = <<>>
    /\ \E n \in 0..MaxKeys : \E ix \in Rising(n) : \E l \in [1..n -> DepLists] :
          graph = TestGraph(ix, l)
    /\ reverse_graph = <<>>
    /\ queue = <<>>
    /\ visited = {}
    /\ stack = <<>>
    /\ printed = <<>>
    /\ pc = "ready"
    /\ manifest = << >>
    /\ latest \in InitialLatests
    /\ changes = 0
    /\ downloads = << StartPkg >>
    /\ failed = {}
    /\ enqueued = <<>>
    /\ dequeued = <<>>
    /\ edges = {}
    /\ frames = <<>>
    /\ order_visited = {}
    /\ entered = <<>>

NextWalk ==
    \/ WalkStart
    \/ WalkStep
    \/ WalkReturn

SpecWalk == InitWalk /\ [][NextWalk]_vars

\* the interpreter keeps running: a step that can be taken is taken
SpecWalkFair == SpecWalk /\ WF_vars(NextWalk)

(***************************************************************************)
(* Vocabulary of the properties.                                           *)
(***************************************************************************)
IdOf(p) == PkgId(p[1], p[2])

AllIds == { IdOf(p) : p \in Pkgs }

Index(s, x) == CHOOSE i \in 1..Len(s) : s[i] = x

Count(s, x) == Cardinality({ i \in 1..Len(s) : s[i] = x })

\* the resolver answered every lookup of the run in the same way
StableResolver == changes = 0

\* the keys that the dependency names of key k resolve to now
Successors(k) ==
    { Resolve(d) : d \in Range(DictGet(graph, k)) } \cap Keys(graph)

\* the keys reachable from the set S over one or more resolved edges
RECURSIVE Descendants(_)
Descendants(S) ==
    LET T == S \cup UNION { Successors(k) : k \in S }
    IN  IF T = S THEN S ELSE Descendants(T)

Acyclic == \A k \in Keys(graph) : k \notin Descendants(Successors(k))

\* a step is a call of show_dependency_order, of show_reverse_dependencies
OrderCalled == (pc = "ready" /\ pc' = "ordered") \/ pc' = "order_returned"

ReverseCalled == (pc = "ordered" /\ pc' = "done") \/ pc' = "reverse_returned"

\* the ids within j of the edges the build resolved, from the root
RECURSIVE Within(_)
Within(j) ==
    IF j = 0 THEN {StartPkg}
    ELSE LET W == Within(j - 1)
         IN  W \cup { e[2] : e \in { f \in edges : f[1] \in W } }

(***************************************************************************)
(* C1.  Topological validity: for an acyclic graph built with a stable     *)
(* resolver, in the load order that show_dependency_order prints every     *)
(* dependency of a node that is a graph key comes strictly before the      *)
(* node, and the root comes last.                                          *)
(***************************************************************************)
C1_PrintedOrderDependenciesFirst ==
    (pc \in {"ordered", "done"} /\ StableResolver /\ Acyclic) =>
        /\ \A N \in Keys(graph) : \A D \in Successors(N) :
              /\ N \in Range(printed)
              /\ D \in Range(printed)
              /\ Index(printed, D) < Index(printed, N)
        /\ printed[Len(printed)] = StartPkg

(***************************************************************************)
(* C2.  Depth bound: with max_depth = k every graph key is within k        *)
(* resolved edges of the root, nothing is dequeued at a depth beyond k,    *)
(* and a package dequeued at depth k is recorded with an empty list.       *)
(***************************************************************************)
C2_DepthBound ==
    config.max_depth # Unbounded =>
        LET k == config.max_depth[1]
        IN  /\ Keys(graph) \subseteq Within(k)
            /\ \A i \in 1..Len(dequeued) :
                  /\ dequeued[i][2] <= k
                  /\ dequeued[i][2] = k =>
                        /\ dequeued[i][1] \in Keys(graph)
                        /\ DictGet(graph, dequeued[i][1]) = <<>>

\* max_depth = 1: the root is recorded with two dependencies, both are cut
\* off at depth 1
C2_Witness ==
    /\ pc = "ready"
    /\ config.max_depth = <<1>>
    /\ Len(DictGet(graph, StartPkg)) = 2
    /\ Len(graph) = 3
    /\ \A i \in 2..3 : graph[i][2] = <<>> /\ dequeued[i][2] = 1

(***************************************************************************)
(* C3.  Filter bound: with a non-empty filter_substring, a graph key whose *)
(* name contains the substring, letter case ignored, is recorded with an   *)
(* empty list and no dependency of it is resolved or enqueued; it is still *)
(* a key; a key whose name does not match, and that is neither cut off by  *)
(* depth nor failed, is recorded with its manifest's names.                *)
(***************************************************************************)
SameLetter(c, d) == LowerChar(c) = LowerChar(d)

NameMatches(sub, name) ==
    \E off \in 0..(Len(name) - Len(sub)) :
        \A j \in 1..Len(sub) : SameLetter(sub[j], name[off + j])

DepthOf(id) == dequeued[Index([i \in 1..Len(dequeued) |-> dequeued[i][1]], id)][2]

C3_FilterBound ==
    config.filter_substring # <<>> =>
        \A p \in Pkgs :
            IdOf(p) \in Keys(graph) =>
                IF NameMatches(config.filter_substring, p[1])
                THEN /\ DictGet(graph, IdOf(p)) = <<>>
                     /\ \A e \in edges : e[1] # IdOf(p)
                ELSE (/\ IdOf(p) \notin failed
                      /\ \/ config.max_depth = Unbounded
                         \/ DepthOf(IdOf(p)) < config.max_depth[1])
                     => /\ p \in DOMAIN manifest
                        /\ Range(DictGet(graph, IdOf(p))) = manifest[p]

\* the filter "Ab" stops at the crate "aB", which the root depends on and
\* which is a key, while the root's other dependency is expanded
C3_Witness ==
    /\ pc = "ready"
    /\ config.filter_substring = <<"A", "b">>
    /\ config.package_name = <<"a">>
    /\ Range(DictGet(graph, StartPkg)) = { <<"a", "B">>, <<"c">> }
    /\ \E v \in Versions :
          /\ PkgId(<<"a", "B">>, v) \in Keys(graph)
          /\ DictGet(graph, PkgId(<<"a", "B">>, v)) = <<>>
    /\ \E v \in Versions :
          /\ PkgId(<<"c">>, v) \in Keys(graph)
          /\ DictGet(graph, PkgId(<<"c">>, v)) # <<>>

(***************************************************************************)
(* C4.  Diamond convergence: in one build a PackageId is appended to the   *)
(* queue at most once, however many processed packages depend on it, and   *)
(* the graph holds at most one entry for it.                               *)
(***************************************************************************)
C4_EnqueuedAtMostOnce ==
    \A id \in AllIds :
        /\ Count(enqueued, id) <= 1
        /\ Cardinality({ i \in 1..Len(graph) : graph[i][1] = id }) <= 1

\* A -> {B, C}, B -> {D}, C -> {D}: D has one entry and was enqueued once
C4_Witness ==
    /\ pc = "ready"
    /\ \E B, C, D \in Keys(graph) \ {StartPkg} :
          /\ B # C /\ B # D /\ C # D
          /\ { << StartPkg, B >>, << StartPkg, C >>, << B, D >>, << C, D >> }
                \subseteq edges
          /\ Count(enqueued, D) = 1

(***************************************************************************)
(* C5.  Monotonic discovery: every step of the build keeps each entry of   *)
(* the graph as it is, key and list, and only adds entries after them; no  *)
(* key is inserted twice.                                                  *)
(***************************************************************************)
GraphOnlyGrows ==
    /\ Len(graph') >= Len(graph)
    /\ \A i \in 1..Len(graph) : graph'[i] = graph[i]
    /\ \A i, j \in 1..Len(graph') : graph'[i][1] = graph'[j][1] => i = j

C5_MonotonicDiscovery == [][GraphOnlyGrows]_vars

\* three entries were added one after the other, one with a non-empty list
C5_Witness ==
    /\ pc = "bfs"
    /\ Len(graph) = 3
    /\ graph[1][2] # <<>>
    /\ queue # <<>>

(***************************************************************************)
(* C6.  Reverse-index correctness: when show_reverse_dependencies has run  *)
(* with the resolver answering as it does now, reverse_graph[X] holds      *)
(* exactly the graph keys that have a dependency name resolving to X, and  *)
(* X is a key of reverse_graph only if there is such a key.                *)
(***************************************************************************)
Dependents(X) ==
    { K \in Keys(graph) :
        \E d \in Range(DictGet(graph, K)) : Resolve(d) = X }

ReverseIndexCorrect ==
    /\ Keys(reverse_graph) \subseteq AllIds
    /\ \A X \in AllIds :
          /\ X \in Keys(reverse_graph) <=> Dependents(X) # {}
          /\ X \in Keys(reverse_graph) =>
                Range(DictGet(reverse_graph, X)) = Dependents(X)

C6_ReverseIndexCorrect ==
    [][(ReverseCalled /\ latest' = latest) => ReverseIndexCorrect']_vars

\* the index was built for a graph in which two keys depend on one package
\* and a third key depends on another
C6_Witness ==
    /\ pc = "done"
    /\ StableResolver
    /\ Len(reverse_graph) >= 2
    /\ \E X \in Keys(reverse_graph) : Len(DictGet(reverse_graph, X)) = 2

(***************************************************************************)
(* C7.  Termination of the build: whatever the registry holds, cycles and  *)
(* failing fetches included, the queue becomes empty and the build         *)
(* returns.                                                                *)
(***************************************************************************)
C7_BuildTerminates == <>(pc = "ready")

(***************************************************************************)
(* C8.  Non-fatal fetch failure: a package whose fetch failed is a graph   *)
(* key with an empty list and no dependency of it is resolved or enqueued; *)
(* the build goes on, so that when it returns every package that was       *)
(* enqueued has its graph entry.                                           *)
(***************************************************************************)
C8_FetchFailureNonFatal ==
    /\ \A id \in failed :
          /\ id \in Keys(graph)
          /\ DictGet(graph, id) = <<>>
          /\ \A e \in edges : e[1] # id
    /\ pc = "ready" => Range(enqueued) \subseteq Keys(graph)

\* a fetch failed while another package was waiting in the queue, and that
\* package was processed afterwards
C8_Witness ==
    /\ pc = "ready"
    /\ \E i \in 1..Len(graph) :
          /\ graph[i][1] \in failed
          /\ i < Len(graph)
          /\ \E j \in 1..Len(enqueued) :
                /\ enqueued[j] = graph[i + 1][1]
                /\ \E e \in edges : e[2] = enqueued[j] /\ e[1] = graph[1][1]
                /\ graph[i + 1][2] # <<>>

(***************************************************************************)
(* C9.  Single fetch: over the whole run, stage 2 and the build, the       *)
(* manifest download of a PackageId is attempted once and never a second   *)
(* time; a key the build expanded was downloaded exactly once.             *)
(***************************************************************************)
C9_SingleFetch ==
    \A id \in AllIds :
        /\ Count(downloads, id) <= 1
        /\ (pc = "ready" /\ id \in Keys(graph) /\ DictGet(graph, id) # <<>>)
              => Count(downloads, id) = 1

(***************************************************************************)
(* C10.  Full closure: with max_depth unbounded, no filter, a stable       *)
(* resolver and no failed fetch, the keys of the built graph are exactly   *)
(* the PackageIds reachable from the root over the manifests' names        *)
(* resolved to name@latest(name), and each key's list holds exactly the    *)
(* names of its manifest.                                                  *)
(***************************************************************************)
\* the crates that the manifest of the crate p names, resolved
ManifestSuccessors(p) ==
    IF p \in DOMAIN manifest
    THEN { << d, GetLatestVersion(latest[d]) >> : d \in manifest[p] }
    ELSE {}

RECURSIVE Closure(_)
Closure(S) ==
    LET T == S \cup UNION { ManifestSuccessors(p) : p \in S }
    IN  IF T = S THEN S ELSE Closure(T)

C10_FullClosure ==
    ( /\ pc = "ready"
      /\ config.max_depth = Unbounded
      /\ config.filter_substring = <<>>
      /\ StableResolver
      /\ failed = {} ) =>
        LET reachable == Closure({ << config.package_name, config.version >> })
        IN  /\ Keys(graph) = { IdOf(p) : p \in reachable }
            /\ \A p \in reachable :
                  /\ p \in DOMAIN manifest
                  /\ Range(DictGet(graph, IdOf(p))) = manifest[p]
                  /\ Len(DictGet(graph, IdOf(p))) = Cardinality(manifest[p])

\* a closure of four packages, one of them reached over two paths
C10_Witness ==
    /\ pc = "ready"
    /\ config.max_depth = Unbounded
    /\ config.filter_substring = <<>>
    /\ StableResolver
    /\ failed = {}
    /\ Len(graph) = 4
    /\ \E D \in Keys(graph) :
          Cardinality({ e \in edges : e[2] = D }) >= 2

\* the build of a registry with a dependency cycle and a failed fetch
\* has returned
C7_Witness ==
    /\ pc = "ready"
    /\ failed # {}
    /\ \E e \in edges : << e[2], e[1] >> \in edges /\ e[1] # e[2]

(***************************************************************************)
(* C11.  Graph frozen after the build: a call of show_dependency_order or  *)
(* of show_reverse_dependencies, whichever calls came before it, leaves    *)
(* the graph as it is, keys and lists; show_dependency_order changes no    *)
(* attribute of the object, show_reverse_dependencies none but             *)
(* reverse_graph.                                                          *)
(***************************************************************************)
StageFourFrame ==
    /\ OrderCalled => UNCHANGED << config, direct_deps, graph, reverse_graph >>
    /\ ReverseCalled => UNCHANGED << config, direct_deps, graph >>

C11_GraphFrozen == [][StageFourFrame]_vars

\* show_dependency_order has been called again after run_all_stages built
\* the reverse index, on a graph of three entries or more
C11_Witness ==
    /\ pc = "order_returned"
    /\ Len(graph) >= 3
    /\ Len(stack) >= 3
    /\ reverse_graph # <<>>

(***************************************************************************)
(* C12.  Reverse index rebuilt fresh: a call of show_reverse_dependencies  *)
(* that follows a call of show_reverse_dependencies, with a resolver that  *)
(* answered every lookup of the run in the same way, leaves reverse_graph  *)
(* equal to what the first call stored: nothing is accumulated and nothing *)
(* is duplicated.                                                          *)
(***************************************************************************)
SecondCallSameIndex ==
    ( /\ pc \in {"done", "reverse_returned"}
      /\ pc' = "reverse_returned"
      /\ changes' = 0 ) => reverse_graph' = reverse_graph

C12_ReverseIndexRebuiltFresh == [][SecondCallSameIndex]_vars

\* the second call has returned; the index holds two keys, one of them with
\* two dependents, each once
C12_Witness ==
    /\ pc = "reverse_returned"
    /\ StableResolver
    /\ Len(reverse_graph) >= 2
    /\ \E X \in Keys(reverse_graph) :
          /\ Len(DictGet(reverse_graph, X)) = 2
          /\ Cardinality(Range(DictGet(reverse_graph, X))) = 2

(***************************************************************************)
(* C13.  Version-resolution fallback: a lookup that fails yields the       *)
(* version 1.0.0, so every id that the build or an analysis step forms is  *)
(* a name@version, the failing name being name@1.0.0, and the step goes on *)
(* with the names that follow: every name of an expanded list has its      *)
(* resolved edge, every name of a graph list its entry in the reverse      *)
(* index.                                                                  *)
(***************************************************************************)
\* the names whose lookup fails
Failing == { n \in Names : latest[n] = Failure }

C13_VersionFallback ==
    /\ \A e \in edges : e[1] \in AllIds /\ e[2] \in AllIds
    /\ visited \subseteq AllIds
    /\ \A i \in 1..Len(queue) : queue[i][2] \in Versions
    /\ Keys(graph) \subseteq AllIds
    /\ Range(stack) \subseteq AllIds
    /\ Keys(reverse_graph) \subseteq AllIds
    /\ \A i \in 1..Len(graph) :
          Cardinality({ e \in edges : e[1] = graph[i][1] }) = Len(graph[i][2])
    /\ StableResolver =>
          \A K \in Keys(graph) : \A d \in Range(DictGet(graph, K)) \cap Failing :
              LET dep_id == PkgId(d, SentinelVersion)
              IN  /\ << K, dep_id >> \in edges
                  /\ dep_id \in visited
                  /\ pc \in {"ready", "ordered"} \cup Constructed =>
                        dep_id \in Keys(graph)
                  /\ pc \in {"ordered"} \cup Constructed =>
                        dep_id \in Range(stack)
                  /\ pc \in Constructed =>
                        /\ dep_id \in Keys(reverse_graph)
                        /\ K \in Range(DictGet(reverse_graph, dep_id))

\* the lookup of the first name of the root's list failed; the name that
\* follows it was resolved too, and both have their entries in the graph,
\* in the load order and in the reverse index
C13_Witness ==
    /\ pc = "done"
    /\ StableResolver
    /\ Len(DictGet(graph, StartPkg)) = 2
    /\ DictGet(graph, StartPkg)[1] \in Failing
    /\ \A d \in Range(DictGet(graph, StartPkg)) :
          /\ Resolve(d) \in Keys(graph)
          /\ Resolve(d) \in Range(stack)
          /\ Resolve(d) \in Keys(reverse_graph)
    /\ PkgId(DictGet(graph, StartPkg)[1], SentinelVersion) \in Keys(graph)

(***************************************************************************)
(* C14.  The defensive skip is unreachable: at every point of the build    *)
(* the PackageIds waiting in the queue are not keys of the graph and no    *)
(* two tuples of the queue hold the same PackageId, so that no tuple is    *)
(* dequeued whose PackageId has a graph entry: every dequeued PackageId    *)
(* was dequeued once.                                                      *)
(***************************************************************************)
QueueIds == { PkgId(queue[i][1], queue[i][2]) : i \in 1..Len(queue) }

C14_SkipUnreachable ==
    /\ QueueIds \cap Keys(graph) = {}
    /\ Cardinality(QueueIds) = Len(queue)
    /\ \A i, j \in 1..Len(dequeued) :
          dequeued[i][1] = dequeued[j][1] => i = j
    /\ Len(dequeued) = Len(graph)

\* a package whose manifest names the root is expanded while another
\* package waits in the queue: the root is a key and is not enqueued again
C14_Witness ==
    /\ pc = "bfs"
    /\ queue # <<>>
    /\ \E e \in edges : e[2] = StartPkg /\ e[1] # StartPkg
    /\ Count(enqueued, StartPkg) = 1

(***************************************************************************)
(* C15.  The load order is a permutation of the graph's nodes: for a graph *)
(* built with a stable resolver, the sequence show_dependency_order        *)
(* computes, and the one it prints, hold every graph key exactly once and  *)
(* nothing else, also when a node is reached over several paths.           *)
(***************************************************************************)
IsPermutationOfKeys(s) ==
    /\ Range(s) = Keys(graph)
    /\ Len(s) = Len(graph)

C15_LoadOrderPermutation ==
    (pc \in {"ordered"} \cup Constructed /\ StableResolver) =>
        /\ IsPermutationOfKeys(stack)
        /\ IsPermutationOfKeys(printed)

\* four nodes, one of them a dependency of two others
C15_Witness ==
    /\ pc = "ordered"
    /\ StableResolver
    /\ Len(stack) = 4
    /\ \E D \in Keys(graph) :
          Cardinality({ K \in Keys(graph) : D \in Successors(K) }) >= 2

(***************************************************************************)
(* C16.  Cycle-safe ordering: on every graph, those with a cycle of        *)
(* resolved edges and with a cycle through the root included, the          *)
(* depth-first traversal of show_dependency_order returns, and no node is  *)
(* entered twice.                                                          *)
(***************************************************************************)
NoNodeEnteredTwice ==
    \A i, j \in 1..Len(entered) : entered[i] = entered[j] => i = j

C16_CycleSafeOrdering ==
    /\ <>(pc = "ordered")
    /\ []NoNodeEnteredTwice

\* the traversal has returned on a graph with a cycle through the root, in
\* which a node on the cycle is a dependency of two nodes
C16_Witness ==
    /\ pc = "ordered"
    /\ frames = <<>>
    /\ StableResolver
    /\ StartPkg \in Keys(graph)
    /\ StartPkg \in Descendants(Successors(StartPkg))
    /\ \E D \in Keys(graph) \ {StartPkg} :
          /\ StartPkg \in Successors(D)
          /\ Cardinality({ K \in Keys(graph) : D \in Successors(K) }) >= 2
    /\ Len(entered) = 3
    /\ Len(stack) = 3

(***************************************************************************)
(* C17.  Reverse-index ordering: in each list of reverse_graph the         *)
(* dependents stand in the order in which they were inserted as keys into  *)
(* the graph; the lists are not sorted.                                    *)
(***************************************************************************)
C17_ReverseListsInInsertionOrder ==
    \A k \in 1..Len(reverse_graph) :
        LET dependents == reverse_graph[k][2]
        IN  \A i, j \in 1..Len(dependents) :
                i < j => /\ dependents[i] \in Keys(graph)
                         /\ dependents[j] \in Keys(graph)
                         /\ KeyIndex(graph, dependents[i])
                               < KeyIndex(graph, dependents[j])

\* a list holds a version of "c" before a version of "aB", as the build
\* inserted them: sorted, "aB@..." would come first
C17_Witness ==
    /\ pc = "done"
    /\ \E k \in 1..Len(reverse_graph) : \E v, w \in Versions :
          reverse_graph[k][2] = << PkgId(<<"c">>, v), PkgId(<<"a", "B">>, w) >>

(***************************************************************************)
(* C18.  Depth-synchronized frontier: at every point of the build the      *)
(* depths in the queue do not decrease from head to tail and the tail's    *)
(* depth is at most the head's plus 1; packages are dequeued in            *)
(* non-decreasing depth, none before the queue's head; and the depth       *)
(* attached to a PackageId, dequeued or waiting, is its shortest distance  *)
(* from the root over the edges the build resolved.                        *)
(***************************************************************************)
\* the least j with id within j resolved edges of the root
Distance(id) ==
    CHOOSE j \in 0..Len(graph) :
        /\ id \in Within(j)
        /\ j > 0 => id \notin Within(j - 1)

C18_DepthSynchronizedFrontier ==
    /\ \A i, j \in 1..Len(queue) : i < j => queue[i][3] <= queue[j][3]
    /\ queue # <<>> => queue[Len(queue)][3] <= queue[1][3] + 1
    /\ \A i, j \in 1..Len(dequeued) : i < j => dequeued[i][2] <= dequeued[j][2]
    /\ (queue # <<>> /\ dequeued # <<>>) =>
           dequeued[Len(dequeued)][2] <= queue[1][3]
    /\ \A i \in 1..Len(queue) :
          /\ PkgId(queue[i][1], queue[i][2]) \in Within(Len(graph))
          /\ queue[i][3] = Distance(PkgId(queue[i][1], queue[i][2]))
    /\ \A i \in 1..Len(dequeued) :
          /\ dequeued[i][1] \in Within(Len(graph))
          /\ dequeued[i][2] = Distance(dequeued[i][1])

\* the queue holds a package of depth 1 before one of depth 2, and a
\* package of depth 2 has an edge from the root's level and one from below
C18_Witness ==
    /\ pc = "bfs"
    /\ Len(queue) >= 2
    /\ queue[1][3] = 1
    /\ queue[Len(queue)][3] = 2
    /\ \E e \in edges :
          /\ e[2] = PkgId(queue[1][1], queue[1][2])
          /\ e[1] # StartPkg

(***************************************************************************)
(* C19.  Every discovered package is eventually processed: throughout the  *)
(* build the graph's keys are visited, and a visited PackageId is a graph  *)
(* key or waits in the queue; when the build has returned the visited set  *)
(* is the key set, and with a stable resolver every name recorded in a     *)
(* list resolves to a graph key.                                           *)
(***************************************************************************)
C19_DiscoveredIsProcessed ==
    /\ Keys(graph) \subseteq visited
    /\ visited = Keys(graph) \cup QueueIds
    /\ pc = "ready" =>
          /\ visited = Keys(graph)
          /\ StableResolver =>
                \A K \in Keys(graph) : \A d \in Range(DictGet(graph, K)) :
                    Resolve(d) \in Keys(graph)

\* the build has returned; a package that was visited while two others
\* were still waiting has its entry, and so have the names of every list
C19_Witness ==
    /\ pc = "ready"
    /\ StableResolver
    /\ Len(graph) = 4
    /\ visited = Keys(graph)
    /\ Len(graph[2][2]) = 1
    /\ Resolve(graph[2][2][1]) = graph[4][1]

=============================================================================
